---- MODULE Spec2Model ----
(***************************************************************************)
(* A model of gbpng.py: conversion between RGBA images and the planar      *)
(* 2 bits-per-pixel tile format.  The pure functions of the module are     *)
(* operators; the variables are the objects a caller holds (the palette    *)
(* list, the planar buffer, the image tuple), the value the last call      *)
(* returned or the exception it raised, and the caller's position.         *)
(***************************************************************************)
EXTENDS Integers, Sequences, FiniteSets

VARIABLES test, pc, planar, width, height, palette, png_data, grid, ret

vars == <<test, pc, planar, width, height, palette, png_data, grid, ret>>

(***************************************************************************)
(* Bounds of the model.                                                    *)
(***************************************************************************)
\* colours other than the four greyscale ones a caller's palette may hold
NumExtraColors == 2
\* whole tiles in a caller's planar buffer (plus up to 15 trailing bytes)
MaxTiles == 4
\* largest width / height of an image handed to png_to_gb
MaxDim == 17
\* largest side, in tiles, of a tile-aligned index grid
MaxGridTiles == 2
\* largest width / height handed to get_unaligned_image_padding
MaxSize == 33
\* byte patterns a planar buffer of a given length is filled with
NumSeeds == 2

(***************************************************************************)
(* Python values.                                                          *)
(***************************************************************************)
\* None, as the value of an optional list
None == [tag |-> "None", items |-> <<>>]
List(s) == [tag |-> "list", items |-> s]
\* "not x" for an optional list: None and [] are both false
Falsy(p) == p.tag = "None" \/ p.items = <<>>

NoRet == [fn |-> "none", status |-> "none"]
NoImage == [width |-> 0, height |-> 0, rgba |-> <<>>, info |-> None]

Range(s) == {s[i] : i \in 1..Len(s)}
Min(a, b) == IF a < b THEN a ELSE b

\* s[i:j] for 0 <= i, 0 <= j
Slice(s, i, j) == SubSeq(s, i + 1, Min(j, Len(s)))

\* n * [0]
Zeros(n) == [i \in 1..n |-> 0]

RECURSIVE Flatten(_)
Flatten(ss) == IF ss = <<>> THEN <<>> ELSE Head(ss) \o Flatten(Tail(ss))

\* tuple comparison: lexicographic
RECURSIVE TupleLess(_, _)
TupleLess(a, b) ==
    IF a = <<>> THEN b # <<>>
    ELSE IF b = <<>> THEN FALSE
    ELSE IF Head(a) # Head(b) THEN Head(a) < Head(b)
    ELSE TupleLess(Tail(a), Tail(b))

\* insert x into a descending sequence
RECURSIVE InsertDesc(_, _)
InsertDesc(s, x) ==
    IF s = <<>> THEN <<x>>
    ELSE IF TupleLess(Head(s), x) THEN <<x>> \o s
    ELSE <<Head(s)>> \o InsertDesc(Tail(s), x)

\* sorted(s, reverse=True)
RECURSIVE SortedReverse(_)
SortedReverse(s) ==
    IF s = <<>> THEN <<>> ELSE InsertDesc(SortedReverse(Tail(s)), Head(s))

(***************************************************************************)
(* pad_palette                                                             *)
(***************************************************************************)
white == <<255, 255, 255, 255>>
black == <<0, 0, 0, 255>>
grey == <<85, 85, 85, 255>>
gray == <<170, 170, 170, 255>>

greyscale == <<white, black, grey, gray>>

\* the loop "for hue in greyscale", from the i-th hue on
RECURSIVE pad_loop(_, _)
pad_loop(pal, i) ==
    IF i > Len(greyscale) THEN pal
    ELSE IF Len(pal) >= 4 THEN pal
    ELSE pad_loop(IF greyscale[i] \notin Range(pal)
                  THEN pal \o <<greyscale[i]>> ELSE pal, i + 1)

\* a bug pad_palette could have: the ramp is left unsorted for an empty
\* palette and is walked from its dark end for a short one
RECURSIVE pad_loop_rev(_, _)
pad_loop_rev(pal, i) ==
    IF i < 1 THEN pal
    ELSE IF Len(pal) >= 4 THEN pal
    ELSE pad_loop_rev(IF greyscale[i] \notin Range(pal)
                      THEN pal \o <<greyscale[i]>> ELSE pal, i - 1)

pad_palette_unsorted(p) ==
    IF Falsy(p) THEN [ret |-> List(greyscale), arg |-> p]
    ELSE LET r == pad_loop_rev(p.items, Len(greyscale))
         IN  [ret |-> List(r), arg |-> List(r)]

\* pad_palette(palette): .ret is the list returned, .arg the caller's
\* list after the call ("palette += [hue]" extends the list in place and
\* the list returned is that same list)
pad_palette(p) ==
    IF Falsy(p) THEN [ret |-> List(SortedReverse(greyscale)), arg |-> p]
    ELSE LET r == pad_loop(p.items, 1)
         IN  [ret |-> List(r), arg |-> List(r)]

(***************************************************************************)
(* get_unaligned_image_padding                                             *)
(***************************************************************************)
tile_width == 8
tile_height == 8

\* a bug the padder could have: all of the remainder goes to the left/top
get_unaligned_image_padding_onesided(w, h) ==
    LET padw == w % tile_width
        padh == h % tile_height
    IN  << IF padw # 0 /\ w > tile_width THEN padw ELSE 0, 0,
           IF padh # 0 /\ h > tile_height THEN padh ELSE 0, 0 >>

\* <<left, right, top, bottom>>
get_unaligned_image_padding(w, h) ==
    LET padw == w % tile_width
        padh == h % tile_height
        lr == IF padw # 0 /\ w > tile_width
              THEN <<(padw \div 2) + (padw % 2), padw \div 2>> ELSE <<0, 0>>
        tb == IF padh # 0 /\ h > tile_height
              THEN <<(padh \div 2) + (padh % 2), padh \div 2>> ELSE <<0, 0>>
    IN  <<lr[1], lr[2], tb[1], tb[2]>>

(***************************************************************************)
(* png_to_gb                                                               *)
(***************************************************************************)
\* a bug the lookup could have: a colour the palette lacks becomes index 0
palette_index_lenient(pal, color) ==
    IF \E i \in 1..Len(pal) : pal[i] = color
    THEN (CHOOSE i \in 1..Len(pal) :
              pal[i] = color /\ \A j \in 1..(i - 1) : pal[j] # color) - 1
    ELSE 0

\* palette.index(color): the first position of color, -1 for ValueError
palette_index(pal, color) ==
    IF \E i \in 1..Len(pal) : pal[i] = color
    THEN (CHOOSE i \in 1..Len(pal) :
              pal[i] = color /\ \A j \in 1..(i - 1) : pal[j] # color) - 1
    ELSE -1

\* one image row: left padding, the index of each pixel, right padding
quantize_line(pal, line, left, right) ==
    Zeros(left)
    \o [k \in 1..((Len(line) + 3) \div 4) |->
            palette_index(pal, Slice(line, 4 * (k - 1), 4 * k))]
    \o Zeros(right)

\* a bug the packer could have: column 0 in the least significant bit
plane_byte_lsb(line, b) ==
    LET acc[i \in 0..Len(line)] ==
            IF i = 0 THEN 0
            ELSE acc[i - 1] + ((line[i] \div (2 ^ b)) % 2) * (2 ^ (i - 1))
    IN  acc[Len(line)]

\* the byte of bit plane b (0 bottom, 1 top) of up to 8 indices
plane_byte(line, b) ==
    LET acc[i \in 0..Len(line)] ==
            IF i = 0 THEN 0
            ELSE acc[i - 1] + ((line[i] \div (2 ^ b)) % 2) * (2 ^ (8 - i))
    IN  acc[Len(line)]

\* "for tile_y in xrange(8)"
RECURSIVE pack_tile(_, _, _, _, _, _)
pack_tile(qmap, w, y, x, tile_y, out) ==
    IF tile_y >= 8 THEN out
    ELSE LET index == (y + tile_y) * w + x
             line == Slice(qmap, index, index + 8)
         IN  pack_tile(qmap, w, y, x, tile_y + 1,
                       out \o <<plane_byte(line, 0), plane_byte(line, 1)>>)

\* "for x in xrange(0, width, 8)"
RECURSIVE pack_strip(_, _, _, _, _)
pack_strip(qmap, w, y, x, out) ==
    IF x >= w THEN out
    ELSE pack_strip(qmap, w, y, x + 8, pack_tile(qmap, w, y, x, 0, out))

\* a bug the packer could have: only the whole tiles of a row are packed
RECURSIVE pack_rows_whole(_, _, _, _, _)
pack_rows_whole(qmap, w, h, y, out) ==
    IF y + 8 > h THEN out
    ELSE pack_rows_whole(qmap, w, h, y + 8, pack_strip(qmap, w, y, 0, out))

\* "for y in xrange(0, height, 8)"
RECURSIVE pack_rows(_, _, _, _, _)
pack_rows(qmap, w, h, y, out) ==
    IF y >= h THEN out
    ELSE pack_rows(qmap, w, h, y + 8, pack_strip(qmap, w, y, 0, out))

\* png_to_gb(png_data): .status is "ok" or the exception raised, .planar
\* and .palette the pair returned, .info the list under info['palette']
\* after the call
png_to_gb(pd) ==
    LET pp == pad_palette(pd.info)
        pal == pp.ret.items
        padding == get_unaligned_image_padding(pd.width, pd.height)
        left == padding[1]
        right == padding[2]
        top == padding[3]
        bottom == padding[4]
        w == pd.width + left + right
        h == pd.height + top + bottom
        qmap == Zeros(w * top)
                \o Flatten([y \in 1..Len(pd.rgba) |->
                               quantize_line(pal, pd.rgba[y], left, right)])
                \o Zeros(w * bottom)
    IN  IF \E i \in 1..Len(qmap) : qmap[i] < 0
        THEN [status |-> "ValueError", info |-> pp.arg]
        ELSE [status |-> "ok", planar |-> pack_rows(qmap, w, h, 0, <<>>),
              palette |-> pp.ret, info |-> pp.arg]

(***************************************************************************)
(* planar_to_tiles, gb_to_png                                              *)
(***************************************************************************)
\* a bug the unpacker could have: the two planes taken for one another
pair_colors_swapped(bottom, top) ==
    [k \in 1..8 |-> ((top \div (2 ^ (8 - k))) % 2)
                    + ((bottom \div (2 ^ (8 - k))) % 2) * 2]

\* the 8 colours of one (bottom, top) pair, bit 7 first
pair_colors(bottom, top) ==
    [k \in 1..8 |-> ((bottom \div (2 ^ (8 - k))) % 2)
                    + ((top \div (2 ^ (8 - k))) % 2) * 2]

\* the loop over the pairs, from the i-th pair on
RECURSIVE tiles_loop(_, _, _, _)
tiles_loop(buf, i, tiles, tile) ==
    IF i > Len(buf) \div 2 THEN tiles
    ELSE LET t == tile \o pair_colors(buf[2 * i - 1], buf[2 * i])
         IN  IF Len(t) >= 64
             THEN tiles_loop(buf, i + 1, tiles \o <<t>>, <<>>)
             ELSE tiles_loop(buf, i + 1, tiles, t)

planar_to_tiles(buf) == tiles_loop(buf, 1, <<>>, <<>>)

\* int(sqrt(n))
int_sqrt(n) == CHOOSE r \in 0..n : r * r <= n /\ (r + 1) * (r + 1) > n

\* a bug the inference could have: a square image, as wide as high
infer_height_square(n, w) == w

\* "((len(tiles) * 8) / width) * 8"
infer_height(n, w) == ((n * 8) \div w) * 8

\* gb_to_png(planar, width, height, palette); 0 stands for an absent
\* width or height ("not width").  .arg is the caller's palette list
\* after the call.
gb_to_png(buf, w0, h0, p) ==
    LET tiles == planar_to_tiles(buf)
        n == Len(tiles)
        w == IF w0 = 0
             THEN (IF h0 = 0 THEN int_sqrt(n) * 8 ELSE (n * 8) \div h0)
             ELSE w0
    IN  IF h0 = 0 /\ w = 0
        THEN [status |-> "ZeroDivisionError", arg |-> p]
        ELSE
        LET h == IF h0 = 0 THEN infer_height(n, w) ELSE h0
            pp == pad_palette(p)
            tiles_per_row == w \div 8
            tile_index(y, x) == (y \div 8) * tiles_per_row + x
            strip(y, x) ==
                Slice(tiles[tile_index(y, x) + 1], (y % 8) * 8, (y % 8) * 8 + 8)
        IN  IF \E y \in 0..(h - 1) : \E x \in 0..(tiles_per_row - 1) :
                   tile_index(y, x) >= n
            THEN [status |-> "IndexError", arg |-> pp.arg]
            ELSE [status |-> "ok", width |-> w, height |-> h,
                  lines |-> [y \in 1..h |->
                      Flatten([x \in 1..tiles_per_row |-> strip(y - 1, x - 1)])],
                  info |-> pp.ret, arg |-> pp.arg]

(***************************************************************************)
(* gb_2to1, gb_1to2                                                        *)
(***************************************************************************)
\* a bug gb_1to2 could have: the top plane is left empty
gb_1to2_bottom_only(two) ==
    Flatten([k \in 1..Len(two) |-> <<two[k], 0>>])

\* two[::2]
gb_2to1(two) == [k \in 1..((Len(two) + 1) \div 2) |-> two[2 * k - 1]]

\* [b for byte in two for b in byte, byte]
gb_1to2(two) == Flatten([k \in 1..Len(two) |-> <<two[k], two[k]>>])

(***************************************************************************)
(* Inputs.                                                                 *)
(***************************************************************************)
ExtraColor(i) == <<255, (i * 64) % 256, 0, 255>>
Colors == Range(greyscale) \cup {ExtraColor(i) : i \in 1..NumExtraColors}

SeqsUpTo(S, n) == UNION {[1..k -> S] : k \in 0..n}

\* every palette of 0 to 4 entries, or None
PaletteInputs == {None} \cup {List(s) : s \in SeqsUpTo(Colors, 4)}

\* the palettes of 4 distinct colours, in every order
DistinctPalettes ==
    UNION {{s \in [1..4 -> C] : \A i, j \in 1..4 : i # j => s[i] # s[j]} :
               C \in {Range(greyscale), {ExtraColor(1), white, black, grey}}}

\* the palette= argument of gb_to_png
PaletteArgs ==
    {None, List(<<>>), List(<<ExtraColor(1)>>), List(<<black, white>>)}

\* the width= and height= arguments of gb_to_png, 0 for an absent one
DimArgs == {<<0, 0>>, <<8, 0>>, <<0, 8>>}

\* the buffer of test_round_trip
sample_gb == <<40, 40, 0, 0, 0, 8, 4, 4, 0, 8, 0, 0, 130, 130, 252, 124>>

\* len bytes: seed, seed + stride, seed + 2 * stride, ... (mod 256)
GenBuffer(len, seed, stride) ==
    [k \in 1..len |-> (seed + (k - 1) * stride) % 256]

\* one-tile buffers over a spread of byte values
TileBuffers ==
    {GenBuffer(16, 17 * a, stride) : a \in 0..15, stride \in {0, 1, 37, 255}}

BufferInputs ==
    {sample_gb} \cup TileBuffers \cup
    {GenBuffer(len, (s * 171) % 256, 37) :
         len \in 0..(16 * MaxTiles + 15), s \in 0..(NumSeeds - 1)}

\* an index grid: the index of pixel (x, y) under pattern pat
GridIndex(pat, x, y) == ((pat[1] * x + pat[2] * y + pat[3] * x * y) % 7) % 4
Patterns == {<<1, 3, 0>>, <<2, 5, 1>>}

MkGrid(w, h, pat) ==
    [y \in 1..h |-> [x \in 1..w |-> GridIndex(pat, x - 1, y - 1)]]

\* the image a grid gives when drawn with the colours of draw; its rows
\* are flat lists of channel values, as png.Reader.asRGBA8 returns them
MkImage(w, h, pat, draw, info) ==
    [width |-> w, height |-> h,
     rgba |-> [y \in 1..h |->
                  Flatten([x \in 1..w |-> draw[GridIndex(pat, x - 1, y - 1) + 1]])],
     info |-> info]

\* <<colours the image is drawn with, info['palette']>>
PalettePairs ==
    LET ramp == SortedReverse(greyscale)
    IN  {<<ramp, None>>, <<ramp, List(<<white>>)>>,
         <<ramp, List(<<ExtraColor(1), black>>)>>}

(***************************************************************************)
(* The caller normalizes a palette.                                        *)
(***************************************************************************)
InitPalette ==
    /\ test = "palette"
    /\ pc = "start"
    /\ palette \in PaletteInputs
    /\ planar = <<>>
    /\ width = 0
    /\ height = 0
    /\ png_data = NoImage
    /\ grid = <<>>
    /\ ret = NoRet

PadPalette ==
    /\ test = "palette"
    /\ pc = "start"
    /\ LET r == pad_palette(palette)
       IN  /\ ret' = [fn |-> "pad_palette", status |-> "ok", value |-> r.ret]
           /\ palette' = r.arg
    /\ pc' = "done"
    /\ UNCHANGED <<test, planar, width, height, png_data, grid>>

NextPalette == PadPalette

SpecPalette == InitPalette /\ [][NextPalette]_vars

(***************************************************************************)
(* The caller pads dimensions, and pads the padded dimensions again.       *)
(***************************************************************************)
InitPadder ==
    /\ test = "padder"
    /\ pc = "start"
    /\ width \in 0..MaxSize
    /\ height \in 0..MaxSize
    /\ palette = None
    /\ planar = <<>>
    /\ png_data = NoImage
    /\ grid = <<>>
    /\ ret = NoRet

GetPadding ==
    /\ test = "padder"
    /\ pc = "start"
    /\ ret' = [fn |-> "get_unaligned_image_padding", status |-> "ok",
               value |-> get_unaligned_image_padding(width, height)]
    /\ pc' = "padding"
    /\ UNCHANGED <<test, planar, width, height, palette, png_data, grid>>

\* "width += left + right; height += top + bottom"
ApplyPadding ==
    /\ test = "padder"
    /\ pc = "padding"
    /\ width' = width + ret.value[1] + ret.value[2]
    /\ height' = height + ret.value[3] + ret.value[4]
    /\ pc' = "start"
    /\ UNCHANGED <<test, planar, palette, png_data, grid, ret>>

NextPadder == GetPadding \/ ApplyPadding

SpecPadder == InitPadder /\ [][NextPadder]_vars

(***************************************************************************)
(* The caller decodes a buffer; test_round_trip writes the image, reads it *)
(* back and encodes it.                                                    *)
(***************************************************************************)
InitDecode ==
    /\ test = "decode"
    /\ pc = "start"
    /\ planar \in BufferInputs
    /\ \E d \in DimArgs : width = d[1] /\ height = d[2]
    /\ palette \in PaletteArgs
    /\ png_data = NoImage
    /\ grid = <<>>
    /\ ret = NoRet

PlanarToTiles ==
    /\ test = "decode"
    /\ pc = "start"
    /\ ret' = [fn |-> "planar_to_tiles", status |-> "ok",
               value |-> planar_to_tiles(planar)]
    /\ pc' = "tiles"
    /\ UNCHANGED <<test, planar, width, height, palette, png_data, grid>>

GbToPng ==
    /\ test = "decode"
    /\ pc = "start"
    /\ LET r == gb_to_png(planar, width, height, palette)
       IN  /\ ret' = IF r.status = "ok"
                     THEN [fn |-> "gb_to_png", status |-> "ok",
                           value |-> [width |-> r.width, height |-> r.height,
                                      lines |-> r.lines, info |-> r.info]]
                     ELSE [fn |-> "gb_to_png", status |-> r.status]
           /\ palette' = r.arg
    /\ pc' = "decoded"
    /\ UNCHANGED <<test, planar, width, height, png_data, grid>>

\* write_png then read_png: the image comes back with every index turned
\* into the 4 channel values of its palette entry, with the palette or
\* without it.  A PNG has a positive width and height and rows as long as
\* its width.
WriteReadPng ==
    /\ test = "decode"
    /\ pc = "decoded"
    /\ ret.status = "ok"
    /\ ret.value.width > 0
    /\ ret.value.height > 0
    /\ \A y \in 1..Len(ret.value.lines) : Len(ret.value.lines[y]) = ret.value.width
    /\ \E keep \in BOOLEAN :
           png_data' =
               [width |-> ret.value.width, height |-> ret.value.height,
                rgba |-> [y \in 1..Len(ret.value.lines) |->
                             Flatten([x \in 1..Len(ret.value.lines[y]) |->
                                 ret.value.info.items[ret.value.lines[y][x] + 1]])],
                info |-> IF keep THEN ret.value.info ELSE None]
    /\ pc' = "png"
    /\ UNCHANGED <<test, planar, width, height, palette, grid, ret>>

(***************************************************************************)
(* The caller encodes an image, and decodes the bytes with the image's     *)
(* width and the palette returned.                                         *)
(***************************************************************************)
InitEncode ==
    /\ test = "encode"
    /\ pc = "start"
    /\ \/ \E w, h \in {8 * k : k \in 1..MaxGridTiles} :
          \E pat \in Patterns : \E pal \in DistinctPalettes :
              /\ png_data = MkImage(w, h, pat, pal, List(pal))
              /\ grid = MkGrid(w, h, pat)
       \/ \E w, h \in 1..MaxDim :
          \E pat \in Patterns : \E pp \in PalettePairs :
              /\ png_data = MkImage(w, h, pat, pp[1], pp[2])
              /\ grid = MkGrid(w, h, pat)
    /\ planar = <<>>
    /\ width = 0
    /\ height = 0
    /\ palette = None
    /\ ret = NoRet

PngToGb ==
    /\ \/ test = "encode" /\ pc = "start"
       \/ test = "decode" /\ pc = "png"
    /\ LET r == png_to_gb(png_data)
       IN  /\ ret' = IF r.status = "ok"
                     THEN [fn |-> "png_to_gb", status |-> "ok",
                           value |-> [planar |-> r.planar, palette |-> r.palette]]
                     ELSE [fn |-> "png_to_gb", status |-> r.status]
           /\ png_data' = [png_data EXCEPT !.info = r.info]
    /\ pc' = "encoded"
    /\ UNCHANGED <<test, planar, width, height, palette, grid>>

\* gb_to_png(gb, width=image width, palette=palette)
DecodeEncoded ==
    /\ test = "encode"
    /\ pc = "encoded"
    /\ ret.status = "ok"
    /\ LET r == gb_to_png(ret.value.planar, png_data.width, 0, ret.value.palette)
       IN  /\ ret' = IF r.status = "ok"
                     THEN [fn |-> "gb_to_png", status |-> "ok",
                           value |-> [width |-> r.width, height |-> r.height,
                                      lines |-> r.lines, info |-> r.info]]
                     ELSE [fn |-> "gb_to_png", status |-> r.status]
           /\ palette' = r.arg
    /\ planar' = ret.value.planar
    /\ width' = png_data.width
    /\ pc' = "decoded"
    /\ UNCHANGED <<test, height, png_data, grid>>

NextDecode == PlanarToTiles \/ GbToPng \/ WriteReadPng \/ PngToGb

SpecDecode == InitDecode /\ [][NextDecode]_vars

NextEncode == PngToGb \/ DecodeEncoded

SpecEncode == InitEncode /\ [][NextEncode]_vars

(***************************************************************************)
(* The caller widens a 1bpp buffer and narrows the result.                 *)
(***************************************************************************)
InitDepth ==
    /\ test = "depth"
    /\ pc = "start"
    /\ planar \in BufferInputs
    /\ width = 0
    /\ height = 0
    /\ palette = None
    /\ png_data = NoImage
    /\ grid = <<>>
    /\ ret = NoRet

Gb1to2 ==
    /\ test = "depth"
    /\ pc = "start"
    /\ ret' = [fn |-> "gb_1to2", status |-> "ok", value |-> gb_1to2(planar)]
    /\ pc' = "widened"
    /\ UNCHANGED <<test, planar, width, height, palette, png_data, grid>>

Gb2to1 ==
    /\ test = "depth"
    /\ pc \in {"start", "widened"}
    /\ ret' = [fn |-> "gb_2to1", status |-> "ok",
               value |-> gb_2to1(IF pc = "start" THEN planar ELSE ret.value)]
    /\ pc' = IF pc = "start" THEN "narrowed" ELSE "round_trip"
    /\ UNCHANGED <<test, planar, width, height, palette, png_data, grid>>

NextDepth == Gb1to2 \/ Gb2to1

SpecDepth == InitDepth /\ [][NextDepth]_vars

(***************************************************************************)
(* Every use of the module.                                                *)
(***************************************************************************)
Init == InitPalette \/ InitPadder \/ InitDecode \/ InitEncode \/ InitDepth

Next ==
    \/ PadPalette
    \/ GetPadding
    \/ ApplyPadding
    \/ PlanarToTiles
    \/ GbToPng
    \/ WriteReadPng
    \/ PngToGb
    \/ DecodeEncoded
    \/ Gb1to2
    \/ Gb2to1

Spec == Init /\ [][Next]_vars

(***************************************************************************)
(* Properties.                                                             *)
(***************************************************************************)
\* the pixels of an image row, each a tuple of 4 channel values
Pixels(line) == {SubSeq(line, 4 * k - 3, 4 * k) : k \in 1..(Len(line) \div 4)}

\* the rows an index grid gives when drawn with the colours of pal
Colored(g, pal) ==
    [y \in 1..Len(g) |-> Flatten([x \in 1..Len(g[y]) |-> pal[g[y][x] + 1]])]

CeilDiv8(n) == (n + 7) \div 8

\* the largest r with r * r <= n
FloorSqrt(n) == CHOOSE r \in 0..n : r * r <= n /\ (r + 1) * (r + 1) > n

\* C1: a 16-byte buffer decoded with no width, height or palette, turned
\* into RGBA through the palette returned and encoded again (with or without
\* the palette) gives the same 16 bytes.
C1_RoundTrip ==
    (/\ test = "decode" /\ pc = "encoded"
     /\ Len(planar) = 16 /\ width = 0 /\ height = 0 /\ palette = None)
    => (ret.status = "ok" /\ ret.value.planar = planar)

C1_Witness ==
    /\ test = "decode" /\ pc = "encoded"
    /\ planar = sample_gb /\ width = 0 /\ height = 0 /\ palette = None
    /\ png_data.width = 8 /\ png_data.height = 8
    /\ ret.status = "ok"

\* C2: when a pixel of the image has a colour that is none of the 4 entries
\* of the normalized palette, png_to_gb raises and returns neither a buffer
\* nor a palette.
C2_UnsupportedColor ==
    (/\ pc = "encoded"
     /\ \E y \in 1..Len(png_data.rgba) :
            \E c \in Pixels(png_data.rgba[y]) :
                c \notin Range(pad_palette(png_data.info).ret.items))
    => (ret.status = "ValueError" /\ DOMAIN ret = {"fn", "status"})

C2_Witness ==
    /\ test = "encode" /\ pc = "encoded"
    /\ png_data.width = 16 /\ png_data.height = 9
    /\ png_data.info.tag = "list"
    /\ Head(png_data.info.items) = ExtraColor(1)
    /\ \E y \in 1..Len(png_data.rgba) : gray \in Pixels(png_data.rgba[y])
    /\ ret.status = "ValueError"

\* C3: a buffer whose length is not a multiple of 16 is rejected by
\* planar_to_tiles and by gb_to_png.
C3_RejectsPartialTile ==
    (/\ test = "decode" /\ pc \in {"tiles", "decoded"}
     /\ Len(planar) % 16 # 0)
    => ret.status # "ok"

\* C4: for a width and a height above 8 the padding returned makes both
\* dimensions multiples of 8, the padder returns no padding for the padded
\* dimensions, and dimensions that are multiples of 8 get no padding.
C4_PaddingAligns ==
    (/\ test = "padder" /\ pc = "padding" /\ width > 8 /\ height > 8)
    => LET w == width + ret.value[1] + ret.value[2]
           h == height + ret.value[3] + ret.value[4]
       IN  /\ w % 8 = 0
           /\ h % 8 = 0
           /\ get_unaligned_image_padding(w, h) = <<0, 0, 0, 0>>
           /\ (width % 8 = 0 /\ height % 8 = 0) => ret.value = <<0, 0, 0, 0>>

\* C5: the buffer png_to_gb returns has 16 bytes for each 8x8 tile covering
\* the padded dimensions, whatever the width and height of the image.
C5_BufferLength ==
    (/\ pc = "encoded" /\ ret.status = "ok")
    => LET padding == get_unaligned_image_padding(png_data.width, png_data.height)
           w == png_data.width + padding[1] + padding[2]
           h == png_data.height + padding[3] + padding[4]
       IN  /\ Len(ret.value.planar) = 16 * (CeilDiv8(w) * CeilDiv8(h))
           /\ Len(ret.value.planar) % 16 = 0

C5_Witness ==
    /\ test = "encode" /\ pc = "encoded"
    /\ png_data.width = 11 /\ png_data.height = 5
    /\ ret.status = "ok"
    /\ Len(ret.value.planar) = 32

\* C6, as claimed: with neither width nor height given, a buffer of N >= 1
\* whole tiles decodes to a square image of side floor(sqrt(N)) * 8.
C6_InferredSquare ==
    (/\ test = "decode" /\ pc = "decoded" /\ width = 0 /\ height = 0
     /\ Len(planar) >= 16 /\ Len(planar) % 16 = 0)
    => /\ ret.status = "ok"
       /\ ret.value.width = FloorSqrt(Len(planar) \div 16) * 8
       /\ ret.value.height = FloorSqrt(Len(planar) \div 16) * 8

\* C6, amended: with neither width nor height given, a buffer of N >= 1
\* whole tiles decodes to an image of width floor(sqrt(N)) * 8 and of height
\* floor(N / floor(sqrt(N))) * 8.
C6_InferredDims ==
    (/\ test = "decode" /\ pc = "decoded" /\ width = 0 /\ height = 0
     /\ Len(planar) >= 16 /\ Len(planar) % 16 = 0)
    => LET n == Len(planar) \div 16
       IN  /\ ret.status = "ok"
           /\ ret.value.width = FloorSqrt(n) * 8
           /\ ret.value.height = (n \div FloorSqrt(n)) * 8
           /\ Len(ret.value.lines) = ret.value.height

C6_Witness ==
    /\ test = "decode" /\ pc = "decoded" /\ width = 0 /\ height = 0
    /\ Len(planar) = 48
    /\ ret.status = "ok"
    /\ ret.value.width = 8 /\ ret.value.height = 24

\* the 4 entries pad_palette is to return for palette p
ExpectedPalette(p) ==
    IF p.tag = "None" \/ p.items = <<>>
    THEN <<white, gray, grey, black>>
    ELSE LET Absent(hue) == \A i \in 1..Len(p.items) : p.items[i] # hue
         IN  SubSeq(p.items \o SelectSeq(<<white, black, grey, gray>>, Absent), 1, 4)

\* C7: pad_palette returns 4 entries: the ramp white, gray, grey, black for
\* an empty or absent palette; otherwise the entries given, in their order,
\* then the ramp colours not among them in the order white, black, grey,
\* gray, up to 4 entries; a palette of 4 entries comes back as it is.
C7_PadPalette ==
    [][(test = "palette" /\ pc = "start" /\ pc' = "done")
       => /\ ret'.value.items = ExpectedPalette(palette)
          /\ Len(ret'.value.items) = 4
          /\ Len(palette.items) = 4 => ret'.value = palette]_vars

C7_Witness ==
    /\ test = "palette" /\ pc = "done"
    /\ ret.value = List(<<ExtraColor(1), white, black, grey>>)

\* C8: a call of gb_to_png or png_to_gb leaves the caller's palette list,
\* planar buffer and image as they were.
C8_NoSideEffect ==
    [][(\/ test = "decode" /\ pc = "start" /\ pc' = "decoded"
        \/ pc \in {"start", "png"} /\ pc' = "encoded")
       => (palette' = palette /\ planar' = planar /\ png_data' = png_data)]_vars

\* C9: a tile-aligned index grid drawn with a palette of 4 distinct colours,
\* encoded with that palette and decoded with the grid's width, comes back
\* as the same index rows, with the same height.
C9_GridRoundTrip ==
    (/\ test = "encode" /\ pc \in {"encoded", "decoded"}
     /\ png_data.width % 8 = 0 /\ png_data.height % 8 = 0
     /\ Len(png_data.info.items) = 4
     /\ Cardinality(Range(png_data.info.items)) = 4
     /\ png_data.rgba = Colored(grid, png_data.info.items))
    => /\ ret.status = "ok"
       /\ pc = "decoded" =>
              /\ ret.value.lines = grid
              /\ ret.value.height = png_data.height
              /\ ret.value.width = png_data.width

C9_Witness ==
    /\ test = "encode" /\ pc = "decoded"
    /\ png_data.width = 16 /\ png_data.height = 16
    /\ png_data.info.items = <<black, ExtraColor(1), grey, white>>
    /\ png_data.rgba = Colored(grid, png_data.info.items)
    /\ ret.status = "ok"
    /\ ret.value.lines = grid

\* C10: gb_1to2(x) is twice as long as x, with bytes 2k and 2k+1 both x[k],
\* and gb_2to1(gb_1to2(x)) is x.
C10_DepthRoundTrip ==
    /\ (test = "depth" /\ pc = "widened") =>
           /\ Len(ret.value) = 2 * Len(planar)
           /\ \A k \in 1..Len(planar) :
                  ret.value[2 * k - 1] = planar[k] /\ ret.value[2 * k] = planar[k]
    /\ (test = "depth" /\ pc = "round_trip") => ret.value = planar

C10_Witness ==
    /\ test = "depth" /\ pc = "round_trip"
    /\ planar = sample_gb
    /\ ret.value = sample_gb

====
